---- MODULE Spec2Model ----
(***************************************************************************)
(* Model of scripts/render_whitepaper.py: a single sequential script that  *)
(* extracts the mermaid blocks of WHITEPAPER.md, renders each one with     *)
(* mmdc, substitutes image references for the rendered ones and runs       *)
(* pandoc on the result.                                                   *)
(*                                                                         *)
(* The document text is a sequence of characters over a three-letter       *)
(* alphabet: BT is one backtick, TAG is the text "mermaid" followed by a   *)
(* newline, X is any other character.  An image reference is one element   *)
(* of the text (its characters contain neither a backtick nor a newline).  *)
(* The script's own file writes are taken to succeed; the two external     *)
(* programs are inputs of the step that calls them.                        *)
(***************************************************************************)
EXTENDS Integers, Sequences, FiniteSets, TLC

VARIABLES
    whitepaper,   \* text of the file WHITEPAPER on disk
    cfgWrites,    \* number of times PUPPETEER_CFG has been written
    content,      \* the text read at line 23
    blocks,       \* list(re.finditer(...)): spans [start, stop) of the matches
    i,            \* index of the render loop
    rendered,     \* dict index -> png path
    mmdFiles,     \* d<i>.mmd files written: index -> payload
    pngFiles,     \* indices whose d<i>.png is known to exist on disk
    calls,        \* the invocations of mmdc, in order
    counter,      \* global counter of replace_block
    pos,          \* scan position of re.sub
    output,       \* text assembled by re.sub so far
    workMd,       \* text of the file WORK_MD (NoFile until written)
    convCalls,    \* the invocations of pandoc, in order
    stdout,       \* lines printed
    exitCode,     \* <<c>> once the process has ended with exit code c
    pc            \* position of the script

vars == <<whitepaper, cfgWrites, content, blocks, i, rendered, mmdFiles,
          pngFiles, calls, counter, pos, output, workMd, convCalls, stdout,
          exitCode, pc>>

----------------------------------------------------------------------------
(* Bounds and alphabet *)

\* number of pieces of a document of TextSpec, and of Spec
MaxPieces == 6
MaxRunPieces == 5

BT  == "BT"
TAG == "mermaid<LF>"
X   == "x"

OPEN  == <<BT, BT, BT, TAG>>
CLOSE == <<BT, BT, BT>>

Pieces == {OPEN, CLOSE, <<BT>>, <<X>>}

RECURSIVE DocsOf(_)
DocsOf(n) ==
    IF n = 0 THEN {<<>>}
    ELSE LET D == DocsOf(n - 1) IN D \cup {d \o p : d \in D, p \in Pieces}

Documents == DocsOf(MaxPieces)
RunDocuments == DocsOf(MaxRunPieces)

DIAGRAM_DIR == "/tmp/mermaid_diagrams"
NoFile == <<"<no file>">>
STDERR_EXCERPT == 500

Min(S) == CHOOSE x \in S : \A y \in S : x <= y
Max(S) == CHOOSE x \in S : \A y \in S : x >= y

----------------------------------------------------------------------------
(* The pattern ```mermaid\n(.*?)``` with re.DOTALL *)

NoMatch == [start |-> 0, stop |-> 0]

\* the literal d occurs in s at position p (1-based)
LiteralAt(s, p, d) ==
    /\ p >= 1
    /\ p + Len(d) - 1 <= Len(s)
    /\ \A k \in 1..Len(d) : s[p + k - 1] = d[k]

\* a greedy (.*): the last closing delimiter at or after from
CloseAtGreedy(s, from) ==
    LET C == {q \in from..Len(s) : LiteralAt(s, q, CLOSE)}
    IN  IF C = {} THEN 0 ELSE Max(C)

\* (.*?)```: the first closing delimiter at or after from, 0 when none
CloseAt(s, from) ==
    LET C == {q \in from..Len(s) : LiteralAt(s, q, CLOSE)}
    IN  IF C = {} THEN 0 ELSE Min(C)

\* the match of the pattern anchored at p: start, and stop (one past the end)
MatchAt(s, p) ==
    IF LiteralAt(s, p, OPEN) /\ CloseAt(s, p + Len(OPEN)) # 0
    THEN [start |-> p, stop |-> CloseAt(s, p + Len(OPEN)) + Len(CLOSE)]
    ELSE NoMatch

\* the leftmost match starting at or after from
Search(s, from) ==
    LET P == {p \in from..Len(s) : MatchAt(s, p) # NoMatch}
    IN  IF P = {} THEN NoMatch ELSE MatchAt(s, Min(P))

RECURSIVE FindFrom(_, _)
FindFrom(s, from) ==
    LET m == Search(s, from)
    IN  IF m = NoMatch THEN <<>> ELSE <<m>> \o FindFrom(s, m.stop)

\* list(re.finditer(pattern, s, re.DOTALL))
finditer(s) == FindFrom(s, 1)

group0(s, m) == SubSeq(s, m.start, m.stop - 1)
group1(s, m) == SubSeq(s, m.start + Len(OPEN), m.stop - Len(CLOSE) - 1)

----------------------------------------------------------------------------
(* Paths and the image reference *)

mmd(k) == DIAGRAM_DIR \o "/d" \o ToString(k) \o ".mmd"
png(k) == DIAGRAM_DIR \o "/d" \o ToString(k) \o ".png"

ImageRef(idx, path) == "![Diagram " \o ToString(idx) \o "](" \o path \o ")"

Put(f, k, v) == [x \in DOMAIN f \cup {k} |-> IF x = k THEN v ELSE f[x]]

Line(text, a, b) == [line |-> text, a |-> a, b |-> b]

----------------------------------------------------------------------------
InitWith(Docs) ==
    /\ whitepaper \in Docs
    /\ cfgWrites = 0
    /\ content = <<>>
    /\ blocks = <<>>
    /\ i = 0
    /\ rendered = <<>>
    /\ mmdFiles = <<>>
    /\ pngFiles = {}
    /\ calls = <<>>
    /\ counter = 0
    /\ pos = 1
    /\ output = <<>>
    /\ workMd = NoFile
    /\ convCalls = <<>>
    /\ stdout = <<>>
    /\ exitCode = <<>>
    /\ pc = "start"

\* the script starts on one of the documents
Init == InitWith(RunDocuments)
TextInit == InitWith(Documents)

\* lines 11-20: make the diagram directory, write and print the config
WriteConfig ==
    /\ pc = "start"
    /\ cfgWrites' = cfgWrites + 1
    /\ stdout' = Append(stdout, Line("Puppeteer config", 0, 0))
    /\ pc' = "configured"
    /\ UNCHANGED <<whitepaper, content, blocks, i, rendered, mmdFiles, pngFiles,
                   calls, counter, pos, output, workMd, convCalls, exitCode>>

\* lines 22-26: read the document and find the blocks
Extract ==
    /\ pc = "configured"
    /\ content' = whitepaper
    /\ blocks' = finditer(whitepaper)
    /\ stdout' = Append(stdout, Line("Found", Len(blocks'), 0))
    /\ pc' = "extracted"
    /\ UNCHANGED <<whitepaper, cfgWrites, i, rendered, mmdFiles, pngFiles,
                   calls, counter, pos, output, workMd, convCalls, exitCode>>

\* lines 29-30: rendered = {} and the loop is entered
EnterLoop ==
    /\ pc = "extracted"
    /\ rendered' = <<>>
    /\ i' = 0
    /\ pc' = "rendering"
    /\ UNCHANGED <<whitepaper, cfgWrites, content, blocks, mmdFiles, pngFiles,
                   calls, counter, pos, output, workMd, convCalls, stdout,
                   exitCode>>

\* what one run of mmdc does: how the process ends (subprocess.run returns
\* with exit status zero or non-zero, or raises, e.g. TimeoutExpired after
\* 60 s) and whether it wrote the png
RendererResults ==
    { [status |-> "exit0",   wrote |-> TRUE],
      [status |-> "exit0",   wrote |-> FALSE],
      [status |-> "nonzero", wrote |-> FALSE],
      [status |-> "raise",   wrote |-> FALSE] }

\* mmdc ends with status zero and the png is there or is not
PlainRendererResults ==
    { [status |-> "exit0", wrote |-> TRUE],
      [status |-> "exit0", wrote |-> FALSE] }

\* lines 35-48, with the process exception propagating instead of caught
AfterRenderNoCatch(res) == IF res.status = "raise" THEN "failed" ELSE "rendering"

\* lines 47-48: the exception is caught and the loop goes on
AfterRender(res) == "rendering"

\* lines 36-41: no exception from subprocess.run, and os.path.exists(png)
RecordsSuccess(res, exists) == res.status # "raise" /\ exists

\* lines 30-48: one iteration of the render loop.  stale: d<i>.png was left
\* in DIAGRAM_DIR by an earlier run (the directory is never cleaned).
RenderBlockWith(Results, Stale) ==
    /\ pc = "rendering"
    /\ i < Len(blocks)
    /\ \E res \in Results, stale \in Stale :
        LET exists == stale \/ res.wrote
            ok     == RecordsSuccess(res, exists)
        IN  /\ mmdFiles' = Put(mmdFiles, i, group1(content, blocks[i + 1]))
            /\ calls' = Append(calls, [idx |-> i, input |-> mmd(i),
                                       out |-> png(i), status |-> res.status,
                                       wrote |-> res.wrote, stale |-> stale])
            /\ pngFiles' = IF exists THEN pngFiles \cup {i} ELSE pngFiles
            /\ rendered' = IF ok THEN Put(rendered, i, png(i)) ELSE rendered
            /\ stdout' = Append(stdout,
                   Line(IF res.status = "raise" THEN "Diagram ERROR"
                        ELSE IF exists THEN "Diagram OK" ELSE "Diagram FAILED",
                        i, 0))
            /\ pc' = AfterRender(res)
            /\ exitCode' = IF pc' = "failed" THEN <<1>> ELSE exitCode
    /\ i' = i + 1
    /\ UNCHANGED <<whitepaper, cfgWrites, content, blocks, counter, pos,
                   output, workMd, convCalls>>

RenderBlock == RenderBlockWith(RendererResults, BOOLEAN)
TextRenderBlock == RenderBlockWith(PlainRendererResults, {FALSE})

\* the loop left before the last block
EnterSubEarly ==
    /\ pc = "rendering"
    /\ i >= Len(blocks) - 1
    /\ counter' = 0
    /\ pos' = 1
    /\ output' = <<>>
    /\ pc' = "substituting"
    /\ UNCHANGED <<whitepaper, cfgWrites, content, blocks, i, rendered,
                   mmdFiles, pngFiles, calls, workMd, convCalls, stdout,
                   exitCode>>

\* lines 50-51 and the call of re.sub at line 60: the loop is over
EnterSub ==
    /\ pc = "rendering"
    /\ i >= Len(blocks)
    /\ counter' = 0
    /\ pos' = 1
    /\ output' = <<>>
    /\ pc' = "substituting"
    /\ UNCHANGED <<whitepaper, cfgWrites, content, blocks, i, rendered,
                   mmdFiles, pngFiles, calls, workMd, convCalls, stdout,
                   exitCode>>

\* replace_block never substituting
replace_block_keep(idx, text) == text

\* replace_block reading the index after the increment
replace_block_off_by_one(idx, text) ==
    IF idx + 1 \in DOMAIN rendered
    THEN <<ImageRef(idx + 1, rendered[idx + 1])>>
    ELSE text

\* lines 52-58: the value replace_block returns for match text `text` when
\* the counter is idx
replace_block(idx, text) ==
    IF idx \in DOMAIN rendered
    THEN <<ImageRef(idx, rendered[idx])>>
    ELSE text

\* counter never advanced
NextCounterStuck(c) == c

\* line 55
NextCounter(c) == c + 1

\* line 60: re.sub finds its next match, copies the text before it and the
\* value of replace_block
ReplaceBlock ==
    /\ pc = "substituting"
    /\ Search(content, pos) # NoMatch
    /\ LET m == Search(content, pos)
       IN  /\ output' = output \o SubSeq(content, pos, m.start - 1)
                               \o replace_block(counter, group0(content, m))
           /\ pos' = m.stop
    /\ counter' = NextCounter(counter)
    /\ UNCHANGED <<whitepaper, cfgWrites, content, blocks, i, rendered,
                   mmdFiles, pngFiles, calls, workMd, convCalls, stdout,
                   exitCode, pc>>

\* re.sub dropping the text after the last match
RestOfTextDropped(s, from) == <<>>

\* the text after the last match
RestOfText(s, from) == SubSeq(s, from, Len(s))

\* line 60: no further match, re.sub returns
FinishSub ==
    /\ pc = "substituting"
    /\ Search(content, pos) = NoMatch
    /\ output' = output \o RestOfText(content, pos)
    /\ pos' = Len(content) + 1
    /\ pc' = "substituted"
    /\ UNCHANGED <<whitepaper, cfgWrites, content, blocks, i, rendered,
                   mmdFiles, pngFiles, calls, counter, workMd, convCalls,
                   stdout, exitCode>>

\* lines 62-66: write WORK_MD, print the summary
WriteWork ==
    /\ pc = "substituted"
    /\ workMd' = output
    /\ stdout' = stdout \o <<Line("Replaced", Cardinality(DOMAIN rendered),
                                  Len(blocks)),
                             Line("Generating PDF...", 0, 0)>>
    /\ pc' = "converting"
    /\ UNCHANGED <<whitepaper, cfgWrites, content, blocks, i, rendered,
                   mmdFiles, pngFiles, calls, counter, pos, output, convCalls,
                   exitCode>>

\* what the run of pandoc does: its exit status, whether OUTPUT_PDF exists
\* afterwards, and the length of its stderr
StderrLengths == {0, STDERR_EXCERPT, STDERR_EXCERPT + 1}

ConverterResults ==
    { [returncode |-> 0, pdf |-> TRUE, stderr |-> 0],
      [returncode |-> 0, pdf |-> FALSE, stderr |-> 0] }
    \cup [returncode : {1}, pdf : {FALSE}, stderr : StderrLengths]

\* pandoc writes the pdf, or fails with a long diagnostic
PlainConverterResults ==
    { [returncode |-> 0, pdf |-> TRUE, stderr |-> 0],
      [returncode |-> 1, pdf |-> FALSE, stderr |-> STDERR_EXCERPT + 1] }

\* r.stderr printed whole
ExcerptWhole(len) == len

\* r.stderr[:500]
Excerpt(len) == IF len < STDERR_EXCERPT THEN len ELSE STDERR_EXCERPT

\* lines 68-88: run pandoc and report.  With return code 0 and no OUTPUT_PDF,
\* os.path.getsize raises and the script ends with a traceback.
ConvertWith(Results) ==
    /\ pc = "converting"
    /\ \E r \in Results :
        /\ convCalls' = Append(convCalls, [input |-> workMd,
                                           returncode |-> r.returncode,
                                           pdf |-> r.pdf])
        /\ IF r.returncode = 0
           THEN IF r.pdf
                THEN /\ stdout' = Append(stdout, Line("PDF generated", 0, 0))
                     /\ exitCode' = <<0>>
                     /\ pc' = "done"
                ELSE /\ stdout' = Append(stdout, Line("Traceback", 0, 0))
                     /\ exitCode' = <<1>>
                     /\ pc' = "failed"
           ELSE /\ stdout' = Append(stdout, Line("PDF generation failed",
                                                Excerpt(r.stderr), r.stderr))
                /\ exitCode' = <<1>>
                /\ pc' = "failed"
    /\ UNCHANGED <<whitepaper, cfgWrites, content, blocks, i, rendered,
                   mmdFiles, pngFiles, calls, counter, pos, output, workMd>>

Convert == ConvertWith(ConverterResults)
TextConvert == ConvertWith(PlainConverterResults)

Next ==
    \/ WriteConfig
    \/ Extract
    \/ EnterLoop
    \/ RenderBlock
    \/ EnterSub
    \/ ReplaceBlock
    \/ FinishSub
    \/ WriteWork
    \/ Convert

\* every outcome of the two external programs, documents of MaxRunPieces
Spec == Init /\ [][Next]_vars

TextNext ==
    \/ WriteConfig
    \/ Extract
    \/ EnterLoop
    \/ TextRenderBlock
    \/ EnterSub
    \/ ReplaceBlock
    \/ FinishSub
    \/ WriteWork
    \/ TextConvert

\* documents of MaxPieces, the external programs produce their file or not
TextSpec == TextInit /\ [][TextNext]_vars

----------------------------------------------------------------------------
(* Properties *)

Alphabet == {BT, TAG, X}
Extracted == pc \notin {"start", "configured"}
Assembled == pc \in {"substituted", "converting", "done", "failed"}
Ended == pc \in {"done", "failed"}

\* positions of the text t that hold an image reference
ImagePositions(t) == {k \in 1..Len(t) : t[k] \notin Alphabet}

\* the original text from position `from` on, with the span of each block
\* k, k+1, ... (1-based positions of `blocks`) replaced by the image
\* reference of its recorded path when its index has one
RECURSIVE SubstitutedFrom(_, _)
SubstitutedFrom(k, from) ==
    IF k > Len(blocks)
    THEN SubSeq(content, from, Len(content))
    ELSE SubSeq(content, from, blocks[k].start - 1)
         \o (IF (k - 1) \in DOMAIN rendered
             THEN <<ImageRef(k - 1, rendered[k - 1])>>
             ELSE SubSeq(content, blocks[k].start, blocks[k].stop - 1))
         \o SubstitutedFrom(k + 1, blocks[k].stop)

\* C1: the assembled text is the original text in which the span of block K
\* is replaced by an image reference to the artifact path recorded for K
\* exactly when K has a recorded success, every other span and all the text
\* outside the spans being kept as they are.
C1_AssemblyByIndex ==
    Assembled =>
        /\ output = SubstitutedFrom(1, 1)
        /\ \A k \in DOMAIN rendered : rendered[k] = png(k)

\* B0, B1, B2 with only B1 failing: B0 and B2 are image references and the
\* text of B1 stands in the assembled text
C1_Witness ==
    /\ pc = "substituted"
    /\ Len(blocks) = 3
    /\ DOMAIN rendered = {0, 2}
    /\ \E p \in 1..Len(output) :
        /\ LiteralAt(output, p, group0(content, blocks[2]))
        /\ p > 1 /\ output[p - 1] = ImageRef(0, png(0))
        /\ output[Len(output)] = ImageRef(2, png(2))

\* C6: when every block has a recorded success, the assembled text holds
\* exactly as many image references as there are blocks and the pattern
\* finds no block in it.
C6_AllRendered ==
    (Assembled /\ DOMAIN rendered = 0..(Len(blocks) - 1)) =>
        /\ Cardinality(ImagePositions(output)) = Len(blocks)
        /\ finditer(output) = <<>>

\* two blocks replaced, with an opening delimiter left in the text around
\* them
C6_Witness ==
    /\ pc = "substituted"
    /\ Len(blocks) >= 2
    /\ DOMAIN rendered = 0..(Len(blocks) - 1)
    /\ \E p \in 1..Len(output) : LiteralAt(output, p, OPEN)

\* C8: the blocks are in document order and do not overlap; each begins at
\* an opening delimiter and ends with the first closing delimiter after it,
\* so that no payload holds a closing delimiter; extracting again from the
\* same text gives the same sequence.
C8_Extraction ==
    Extracted =>
        /\ \A k \in 1..Len(blocks) :
            LET m == blocks[k]
                c == m.stop - Len(CLOSE)
            IN  /\ 1 <= m.start
                /\ m.stop <= Len(content) + 1
                /\ LiteralAt(content, m.start, OPEN)
                /\ m.start + Len(OPEN) <= c
                /\ LiteralAt(content, c, CLOSE)
                /\ \A q \in (m.start + Len(OPEN))..(c - 1) :
                       ~LiteralAt(content, q, CLOSE)
                /\ \A q \in 1..Len(group1(content, m)) :
                       ~LiteralAt(group1(content, m), q, CLOSE)
        /\ \A k \in 1..(Len(blocks) - 1) : blocks[k].stop <= blocks[k + 1].start
        /\ blocks = finditer(content)

\* two blocks, the second starting where the first ends, and a closing
\* delimiter after the second one
C8_Witness ==
    /\ pc = "extracted"
    /\ Len(blocks) = 2
    /\ blocks[1].stop = blocks[2].start
    /\ \E q \in blocks[2].stop..Len(content) : LiteralAt(content, q, CLOSE)

\* C10: the keys of rendered are indices already attempted; re.sub advances
\* the counter once per match and over the same matches as the extraction,
\* so the counter is the number of blocks when it returns; the summary line
\* gives the number of spans replaced by an image reference and the number
\* of blocks.
C10_Bookkeeping ==
    /\ DOMAIN rendered \subseteq 0..(Len(calls) - 1)
    /\ Len(calls) <= Len(blocks)
    /\ pc = "substituting" =>
        /\ counter <= Len(blocks)
        /\ pos = (IF counter = 0 THEN 1 ELSE blocks[counter].stop)
        /\ Search(content, pos) # NoMatch <=> counter < Len(blocks)
        /\ counter < Len(blocks) => Search(content, pos) = blocks[counter + 1]
        /\ Cardinality(ImagePositions(output))
              = Cardinality(DOMAIN rendered \cap 0..(counter - 1))
    /\ Assembled => counter = Len(blocks)
    /\ \A k \in 1..Len(stdout) :
        stdout[k].line = "Replaced" =>
            /\ stdout[k].b = Len(blocks)
            /\ stdout[k].a = Cardinality(ImagePositions(output))
            /\ workMd = output

\* three blocks of which two were replaced, reported as 2/3
C10_Witness ==
    /\ pc = "converting"
    /\ counter = 3
    /\ Cardinality(ImagePositions(workMd)) = 2
    /\ stdout[Len(stdout) - 1] = Line("Replaced", 2, 3)

\* the mmdc call of block index k
CallOf(k) == calls[k + 1]

\* C2: a block has an entry in rendered only when mmdc ended with status
\* zero and its png exists; an exception, a non-zero status or a missing png
\* leaves the block without an entry, also when a png of an earlier run is
\* there.
C2_SuccessNeedsExitZero ==
    \A k \in 0..(Len(calls) - 1) :
        k \in DOMAIN rendered <=>
            (CallOf(k).status = "exit0" /\ k \in pngFiles)

C4_ConverterFailure ==
    (convCalls # <<>> /\ convCalls[1].returncode # 0) =>
        /\ pc = "failed"
        /\ Len(exitCode) = 1 /\ exitCode[1] # 0
        /\ \A k \in 1..Len(stdout) : stdout[k].line # "PDF generated"
        /\ LET last == stdout[Len(stdout)]
           IN  /\ last.line = "PDF generation failed"
               /\ last.a <= STDERR_EXCERPT
               /\ last.a <= last.b
               /\ last.a = last.b \/ last.a = STDERR_EXCERPT

\* pandoc fails with more than STDERR_EXCERPT characters of stderr
C4_Witness ==
    /\ pc = "failed"
    /\ convCalls[1].returncode = 1
    /\ stdout[Len(stdout)].b > STDERR_EXCERPT
    /\ stdout[Len(stdout)].a = STDERR_EXCERPT

\* C5: the exit code is zero exactly when pandoc returned zero, whatever the
\* blocks did and whether or not the pdf is there.
C5_ExitCodeFollowsConverter ==
    exitCode # <<>> =>
        /\ convCalls # <<>>
        /\ (exitCode = <<0>>) <=> (convCalls[1].returncode = 0)

\* C7: with no block in the document mmdc is never called, rendered stays
\* empty, WORK_MD gets the text of the document as it is, and pandoc is
\* called once, on that text.
C7_NoBlocks ==
    (Extracted /\ blocks = <<>>) =>
        /\ calls = <<>>
        /\ rendered = <<>>
        /\ mmdFiles = <<>>
        /\ workMd # NoFile => workMd = whitepaper
        /\ pc \in {"converting", "done", "failed"} => workMd = whitepaper
        /\ Ended => /\ Len(convCalls) = 1
                    /\ convCalls[1].input = whitepaper
        /\ ~Ended => convCalls = <<>>

\* a document with delimiters but no block went through pandoc
C7_Witness ==
    /\ pc = "done"
    /\ blocks = <<>>
    /\ \E p \in 1..Len(whitepaper) : LiteralAt(whitepaper, p, OPEN)
    /\ convCalls[1].input = whitepaper

Rank(p) ==
    CASE p = "start" -> 0
      [] p = "configured" -> 1
      [] p = "extracted" -> 2
      [] p = "rendering" -> 3
      [] p = "substituting" -> 4
      [] p = "substituted" -> 5
      [] p = "converting" -> 6
      [] p = "done" -> 7
      [] p = "failed" -> 7

C9_Order ==
    /\ cfgWrites = (IF pc = "start" THEN 0 ELSE 1)
    /\ calls # <<>> => cfgWrites = 1
    /\ Rank(pc) >= 4 => Len(calls) = Len(blocks)
    /\ Rank(pc) < 3 => calls = <<>>
    /\ Rank(pc) >= 6 <=> workMd # NoFile
    /\ Rank(pc) >= 6 => workMd = output
    /\ Len(convCalls) = (IF Ended THEN 1 ELSE 0)
    /\ Ended => convCalls[1].input = workMd

C9_Step ==
    /\ \/ Rank(pc') > Rank(pc)
       \/ pc' = pc /\ pc = "rendering" /\ i' = i + 1 /\ i' <= Len(blocks)
       \/ pc' = pc /\ pc = "substituting" /\ counter' = counter + 1
             /\ pos' > pos
    /\ ~Ended
    /\ calls' # calls => (pc = "rendering" /\ Len(calls') = Len(calls) + 1)
    /\ cfgWrites' # cfgWrites => pc = "start"
    /\ convCalls' # convCalls => pc = "converting"
    /\ workMd' # workMd => pc = "substituted"

\* C9: the run goes start, extracted, rendering of 0..n-1, substituted,
\* converting, then done or failed, and never back: the configuration is
\* written once, before any block; mmdc is not called once the substitution
\* has begun; WORK_MD is written before pandoc starts; pandoc is called
\* once, after all n blocks were attempted.
C9_LinearRun == [](C9_Order) /\ [][C9_Step]_vars

\* a run over two blocks that reached the end
C9_Witness ==
    /\ pc = "failed"
    /\ Len(calls) = 2
    /\ counter = 2
    /\ cfgWrites = 1
    /\ Len(convCalls) = 1

====
